---- MODULE Spec2Model ----
(***************************************************************************)
(* order_in_yaml_frontmatter: the page list (src/src/page.rs) and the      *)
(* interactive controller (src/src/app.rs).                                *)
(*                                                                         *)
(* A page is a record [id, yaml, value, value_old, file, written]:         *)
(*   id        the position of the file in the directory scan (its path),  *)
(*   yaml      the entry of the ordering key in the in-memory front matter,*)
(*   value     Option<i64>, the current order value,                       *)
(*   value_old Option<i64>, the value read from the file,                  *)
(*   file      the entry of the ordering key in the file on disk,          *)
(*   written   whether the session has written to the file.                *)
(* Indices are 0-based as in the code; At(pl, idx) reads position idx.     *)
(***************************************************************************)
EXTENDS Integers, Sequences, FiniteSets, TLC

VARIABLES page_list, selected_idx, current_status, previous_status,
          pc, last_key, opened_from, calls

vars == <<page_list, selected_idx, current_status, previous_status,
          pc, last_key, opened_from, calls>>

\* The largest number of documents the directory scan finds, for the
\* collection used directly ...
MaxDocs == 3

\* ... and under the controller.
MaxAppDocs == 2

(***************************************************************************)
(* Option<i64>                                                             *)
(***************************************************************************)
None == <<>>

Some(x) == <<x>>

is_some(o) == o # None

unwrap(o) == o[1]

(***************************************************************************)
(* The entry of the ordering key in a front matter (yaml_rust::Yaml).      *)
(* NonHash: the front matter is not a mapping at all; indexing it gives    *)
(* BadValue, like indexing a mapping without the key (Absent).             *)
(***************************************************************************)
Absent == <<"absent", 0>>

Null == <<"null", 0>>

Integer(x) == <<"int", x>>

NonHash == <<"nonhash", 0>>

\* What a failed copy may leave in the file.
Partial == <<"partial", 0>>

\* The integers found in the files: negative, duplicated, adjacent and gapped
\* values.
InputIntegers == {-1, 0, 1, 2}

InputYaml == {NonHash, Absent, Null} \cup {Integer(x) : x \in InputIntegers}

\* Page::try_new: value and value_old are both the integer under the key.
Page_try_new(id, yaml) ==
    LET value == IF yaml[1] = "int" THEN Some(yaml[2]) ELSE None
    IN  [id |-> id, yaml |-> yaml, value |-> value, value_old |-> value,
         file |-> yaml, written |-> FALSE]

\* PageList::append_page_list: the pages in scan order, before sorting.
append_page_list(yamls) ==
    [i \in 1..Len(yamls) |-> Page_try_new(i, yamls[i])]

At(pl, idx) == pl[idx + 1]

\* The comparator with None before Some.
compare_none_first(a, b) ==
    IF is_some(a.value)
    THEN IF is_some(b.value)
         THEN IF unwrap(a.value) < unwrap(b.value) THEN "Less"
              ELSE IF unwrap(a.value) > unwrap(b.value) THEN "Greater"
              ELSE "Equal"
         ELSE "Greater"
    ELSE IF is_some(b.value) THEN "Less" ELSE "Equal"

\* The comparator of sort_and_fix.
compare(a, b) ==
    IF is_some(a.value)
    THEN IF is_some(b.value)
         THEN IF unwrap(a.value) < unwrap(b.value) THEN "Less"
              ELSE IF unwrap(a.value) > unwrap(b.value) THEN "Greater"
              ELSE "Equal"
         ELSE "Less"
    ELSE IF is_some(b.value) THEN "Greater" ELSE "Equal"

\* Vec::sort_by is a stable sort: an element is inserted behind every
\* element that does not compare Greater than it.
RECURSIVE insert_sorted(_, _)
insert_sorted(sorted, page) ==
    IF sorted = <<>> THEN <<page>>
    ELSE IF compare(sorted[Len(sorted)], page) = "Greater"
         THEN Append(insert_sorted(SubSeq(sorted, 1, Len(sorted) - 1), page),
                     sorted[Len(sorted)])
         ELSE Append(sorted, page)

RECURSIVE sort_by(_)
sort_by(pl) ==
    IF pl = <<>> THEN <<>>
    ELSE insert_sorted(sort_by(SubSeq(pl, 1, Len(pl) - 1)), pl[Len(pl)])

\* The renumbering stores the new value as the value read from the file too.
RECURSIVE renumber_both(_, _)
renumber_both(pl, current_value) ==
    IF pl = <<>> THEN <<>>
    ELSE IF is_some(pl[1].value)
         THEN <<[pl[1] EXCEPT !.value = Some(current_value),
                              !.value_old = Some(current_value)]>>
              \o renumber_both(Tail(pl), current_value + 1)
         ELSE <<pl[1]>> \o renumber_both(Tail(pl), current_value)

\* The renumbering loop of sort_and_fix: current_value counts the Some pages.
RECURSIVE renumber(_, _)
renumber(pl, current_value) ==
    IF pl = <<>> THEN <<>>
    ELSE IF is_some(pl[1].value)
         THEN <<[pl[1] EXCEPT !.value = Some(current_value)]>>
              \o renumber(Tail(pl), current_value + 1)
         ELSE <<pl[1]>> \o renumber(Tail(pl), current_value)

\* The renumbering without the sort.
sort_and_fix_unsorted(pl) == renumber(pl, 0)

sort_and_fix(pl) == renumber(sort_by(pl), 0)

\* PageList::try_new: scan, then sort_and_fix.
PageList_try_new(yamls) == sort_and_fix(append_page_list(yamls))

\* The value of the last Some page among the first idx pages, 0 without one.
RECURSIVE pre_value(_, _)
pre_value(pl, idx) ==
    IF idx = 0 THEN 0
    ELSE IF is_some(pl[idx].value) THEN unwrap(pl[idx].value)
         ELSE pre_value(pl, idx - 1)

\* The loops run over every page but the one at idx.
shift_everywhere(pl, idx, delta) ==
    [i \in 1..Len(pl) |->
        IF i # idx + 1 /\ is_some(pl[i].value)
        THEN [pl[i] EXCEPT !.value = Some(unwrap(pl[i].value) + delta)]
        ELSE pl[i]]

\* The loops of toggle_value over the pages behind idx.
shift_after(pl, idx, delta) ==
    [i \in 1..Len(pl) |->
        IF i > idx + 1 /\ is_some(pl[i].value)
        THEN [pl[i] EXCEPT !.value = Some(unwrap(pl[i].value) + delta)]
        ELSE pl[i]]

\* PageList::toggle_value: [page_list, result].
toggle_value(pl, idx) ==
    IF idx >= Len(pl)
    THEN [page_list |-> pl, result |-> "IndexOutOfRange"]
    ELSE IF is_some(At(pl, idx).value)
         THEN [page_list |->
                  shift_after([pl EXCEPT ![idx + 1].value = None], idx, -1),
               result |-> "Ok"]
         ELSE [page_list |->
                  shift_after([pl EXCEPT ![idx + 1].value =
                                   Some(pre_value(pl, idx) + 1)], idx, 1),
               result |-> "Ok"]

\* A swap that loses one of the two values.
exchange_values_lost(pl, idx, idx_neighbor) ==
    IF is_some(At(pl, idx).value) /\ is_some(At(pl, idx_neighbor).value)
    THEN [pl EXCEPT ![idx + 1].value = At(pl, idx_neighbor).value]
    ELSE pl

\* The values stay with their pages.
exchange_values_never(pl, idx, idx_neighbor) == pl

\* The values are exchanged even when one of them is None.
exchange_values_always(pl, idx, idx_neighbor) ==
    [pl EXCEPT ![idx + 1].value = At(pl, idx_neighbor).value,
               ![idx_neighbor + 1].value = At(pl, idx).value]

\* swap_with_value, the exchange of the two values when both are Some.
exchange_values(pl, idx, idx_neighbor) ==
    IF is_some(At(pl, idx).value) /\ is_some(At(pl, idx_neighbor).value)
    THEN [pl EXCEPT ![idx + 1].value = At(pl, idx_neighbor).value,
                    ![idx_neighbor + 1].value = At(pl, idx).value]
    ELSE pl

\* Vec::swap.
vec_swap(pl, a, b) == [pl EXCEPT ![a + 1] = pl[b + 1], ![b + 1] = pl[a + 1]]

\* swap_with_value behind its first check.  "Panic" is what the arithmetic
\* and the unwraps do where that check would have returned: len() - 1 on an
\* empty list overflows (a panic in a debug build; wrapped in a release
\* build, where get(idx).unwrap() panics next).
swap_in_range(pl, idx, swap_direction) ==
    IF swap_direction = "Prev" /\ idx = 0
    THEN [page_list |-> pl, result |-> "NoSuchNeighbor"]
    ELSE IF swap_direction = "Next" /\ Len(pl) = 0
    THEN [page_list |-> pl, result |-> "Panic"]
    ELSE IF swap_direction = "Next" /\ idx = Len(pl) - 1
    THEN [page_list |-> pl, result |-> "NoSuchNeighbor"]
    ELSE LET idx_neighbor == IF swap_direction = "Prev"
                             THEN idx - 1 ELSE idx + 1
         IN  IF idx >= Len(pl) \/ idx_neighbor >= Len(pl)
             THEN [page_list |-> pl, result |-> "Panic"]
             ELSE [page_list |->
                      vec_swap(exchange_values(pl, idx, idx_neighbor),
                               idx, idx_neighbor),
                   result |-> "Ok"]

\* Without the check of idx against the length.
swap_with_value_unchecked(pl, idx, swap_direction) ==
    swap_in_range(pl, idx, swap_direction)

\* PageList::swap_with_value: [page_list, result].
swap_with_value(pl, idx, swap_direction) ==
    IF idx >= Len(pl)
    THEN [page_list |-> pl, result |-> "IndexOutOfRange"]
    ELSE swap_in_range(pl, idx, swap_direction)

(***************************************************************************)
(* The collection used directly: any call with any index, in range or not. *)
(* calls holds the last calls made, oldest first, each with the list it    *)
(* was applied to.                                                         *)
(***************************************************************************)
InputsOf(kinds, max) == UNION {[1..n -> kinds] : n \in 0..max}

\* Every front matter the scan can meet.
Inputs == InputsOf(InputYaml, MaxDocs)

\* The front matters behind the lists the calls are made on: without the
\* key and with it.  The calls read value alone, and sort_and_fix has
\* renumbered it.
SessionYaml == {Absent, Integer(2)}

Indices == 0..MaxDocs

Call(op, idx, dir, result, before) ==
    [op |-> op, idx |-> idx, dir |-> dir, result |-> result, before |-> before]

AppIdle ==
    /\ selected_idx = 0
    /\ current_status = "Unpicked"
    /\ previous_status = "Unpicked"
    /\ last_key = "none"
    /\ opened_from = "Unpicked"

AppUnchanged ==
    UNCHANGED <<selected_idx, current_status, previous_status, last_key,
                opened_from>>

InitLib ==
    /\ \E yamls \in InputsOf(SessionYaml, MaxDocs) :
           page_list = PageList_try_new(yamls)
    /\ pc = "idle"
    /\ calls = <<>>
    /\ AppIdle

\* One call of toggle_value; kept is what calls remembers before it.
CallToggle(idx, kept) ==
    LET r == toggle_value(page_list, idx)
    IN  /\ page_list' = r.page_list
        /\ calls' = Append(kept, Call("toggle_value", idx, "-", r.result,
                                      page_list))
        /\ AppUnchanged

\* One call of swap_with_value.
CallSwap(idx, dir, kept) ==
    LET r == swap_with_value(page_list, idx, dir)
    IN  /\ page_list' = r.page_list
        /\ calls' = Append(kept, Call("swap_with_value", idx, dir, r.result,
                                      page_list))
        /\ AppUnchanged

LibToggle ==
    /\ \E idx \in Indices : CallToggle(idx, <<>>)
    /\ UNCHANGED pc

LibSwap ==
    /\ \E idx \in Indices, dir \in {"Prev", "Next"} : CallSwap(idx, dir, <<>>)
    /\ UNCHANGED pc

NextLib == LibToggle \/ LibSwap

SpecLib == InitLib /\ [][NextLib]_vars

\* Only swaps.
NextSwap == LibSwap

SpecSwap == InitLib /\ [][NextSwap]_vars

(***************************************************************************)
(* Two calls in immediate succession, from any list the calls can build:   *)
(* toggle_value(i) twice, and swap_with_value(i, Next) followed by         *)
(* swap_with_value(i + 1, Prev).                                           *)
(***************************************************************************)
ToggleFirst ==
    /\ pc \in {"idle", "second"}
    /\ \E idx \in Indices : CallToggle(idx, <<>>)
    /\ pc' = "first"

ToggleSecond ==
    /\ pc = "first"
    /\ calls[1].op = "toggle_value"
    /\ CallToggle(calls[1].idx, calls)
    /\ pc' = "second"

SwapFirst ==
    /\ pc \in {"idle", "second"}
    /\ \E idx \in Indices : CallSwap(idx, "Next", <<>>)
    /\ pc' = "first"

SwapSecond ==
    /\ pc = "first"
    /\ calls[1].op = "swap_with_value"
    /\ CallSwap(calls[1].idx + 1, "Prev", calls)
    /\ pc' = "second"

\* Any other call in between two pairs.
PairOther ==
    /\ pc \in {"idle", "second"}
    /\ \/ \E idx \in Indices :
              page_list' = toggle_value(page_list, idx).page_list
       \/ \E idx \in Indices, dir \in {"Prev", "Next"} :
              page_list' = swap_with_value(page_list, idx, dir).page_list
    /\ calls' = <<>>
    /\ pc' = "idle"
    /\ AppUnchanged

NextPair ==
    ToggleFirst \/ ToggleSecond \/ SwapFirst \/ SwapSecond \/ PairOther

SpecPair == InitLib /\ [][NextPair]_vars

(***************************************************************************)
(* Construction: the scanned pages, then sort_and_fix.                     *)
(***************************************************************************)
InitConstruct ==
    /\ \E yamls \in Inputs : page_list = append_page_list(yamls)
    /\ pc = "scanned"
    /\ calls = <<>>
    /\ AppIdle

Construct ==
    /\ pc = "scanned"
    /\ page_list' = sort_and_fix(page_list)
    /\ calls' = <<Call("sort_and_fix", 0, "-", "Ok", page_list)>>
    /\ pc' = "constructed"
    /\ AppUnchanged

NextConstruct == Construct

SpecConstruct == InitConstruct /\ [][NextConstruct]_vars

(***************************************************************************)
(* Saving: substitute_value and overwrite_frontmatter.                     *)
(***************************************************************************)
\* The front matter keeps the entry read from the file.
Page_substitute_nothing(page) == page

\* Page::substitute_value on a front matter that is a mapping.
Page_substitute_value(page) ==
    [page EXCEPT !.yaml = IF is_some(page.value)
                          THEN Integer(unwrap(page.value)) ELSE Absent]

\* PageList::substitute_value: the pages in order; the first front matter
\* that is no mapping panics and leaves the pages behind it untouched.
PageList_substitute_value(pl) ==
    LET bad == {i \in 1..Len(pl) : pl[i].yaml = NonHash}
        stop == IF bad = {} THEN Len(pl) + 1
                ELSE CHOOSE i \in bad : \A j \in bad : i <= j
    IN  [page_list |-> [i \in 1..Len(pl) |->
                           IF i < stop THEN Page_substitute_value(pl[i])
                           ELSE pl[i]],
         result |-> IF bad = {} THEN "Ok" ELSE "Panic"]

\* A page written whether or not its value has changed.
Page_overwrite_always(page, io_ok, partial) ==
    IF io_ok
    THEN [page |-> [page EXCEPT !.file = page.yaml, !.written = TRUE],
          result |-> "Ok"]
    ELSE [page |-> page, result |-> "WriteFailure"]

\* Page::overwrite_frontmatter: [page, result].  io_ok: every file operation
\* succeeds; partial: the failing one is the copy over the file, which has
\* already changed it.
Page_overwrite_frontmatter(page, io_ok, partial) ==
    IF page.value # page.value_old
    THEN IF io_ok
         THEN [page |-> [page EXCEPT !.file = page.yaml, !.written = TRUE],
               result |-> "Ok"]
         ELSE [page |-> IF partial
                        THEN [page EXCEPT !.file = Partial, !.written = TRUE]
                        ELSE page,
               result |-> "WriteFailure"]
    ELSE [page |-> page, result |-> "Ok"]

\* What the file system does during one save: the position (from 1) of the
\* page whose write fails, 0 for none.
IoOutcomes == [fail_at : 0..MaxAppDocs, partial : BOOLEAN]

\* Every page is written, whatever the writes before it returned.
PageList_overwrite_every(pl, io) ==
    LET done(i) == Page_overwrite_frontmatter(pl[i], i # io.fail_at, io.partial)
        errs == {i \in 1..Len(pl) : done(i).result # "Ok"}
    IN  [page_list |-> [i \in 1..Len(pl) |-> done(i).page],
         result |-> IF errs = {} THEN "Ok" ELSE "WriteFailure"]

\* PageList::overwrite_frontmatter: the pages in order, up to the first error.
PageList_overwrite_frontmatter(pl, io) ==
    LET done(i) == Page_overwrite_frontmatter(pl[i], i # io.fail_at, io.partial)
        errs == {i \in 1..Len(pl) : done(i).result # "Ok"}
        stop == IF errs = {} THEN Len(pl) + 1
                ELSE CHOOSE i \in errs : \A j \in errs : i <= j
    IN  [page_list |-> [i \in 1..Len(pl) |->
                           IF i <= stop THEN done(i).page ELSE pl[i]],
         result |-> IF errs = {} THEN "Ok" ELSE "WriteFailure"]

(***************************************************************************)
(* The text of a file, for Page::overwrite_frontmatter.  A file is a       *)
(* sequence of lines [text, end]: end is the terminator of the line, "" on *)
(* a last line that has none.                                              *)
(***************************************************************************)
MaxBodyLines == 2

LF == "\n"

CRLF == "\r\n"

Line(text, end) == [text |-> text, end |-> end]

\* The lines of a body: text, an empty line, a line of three dashes.
BodyTexts == {"a", "", "---"}

\* One line of YamlEmitter's output for the ordering key.
key_line(x) ==
    CASE x = -1 -> "order: -1"
      [] x = 0 -> "order: 0"
      [] x = 1 -> "order: 1"
      [] x = 2 -> "order: 2"
      [] x = 3 -> "order: 3"
      [] OTHER -> "order: n"

\* emitter.dump(&self.yaml): the lines of the document, the last of them
\* without a terminator.  The mapping holds a title before the ordering key.
emitter_dump(yaml) ==
    <<"---", "title: t">>
        \o (IF yaml[1] = "int" THEN <<key_line(yaml[2])>> ELSE <<>>)

\* BufRead::lines: the text of each line, "\n" or "\r\n" taken off.
lines(content) == [i \in 1..Len(content) |-> content[i].text]

\* The lines of the loop that follow the first "---" after the skipped line.
after_end_yaml(ls) ==
    LET ends == {i \in 2..Len(ls) : ls[i] = "---"}
    IN  IF ends = {} THEN <<>>
        ELSE SubSeq(ls, (CHOOSE i \in ends : \A j \in ends : i <= j) + 1,
                    Len(ls))

\* new_file_content: the dump, writeln!("\n---"), then writeln! of each line
\* behind the end of the front matter.
new_file_content(yaml, content) ==
    LET dump == emitter_dump(yaml)
        rest == after_end_yaml(lines(content))
    IN  [i \in 1..Len(dump) |-> Line(dump[i], LF)]
            \o <<Line("---", LF)>>
            \o [i \in 1..Len(rest) |-> Line(rest[i], LF)]

\* Page::try_new of a file with its text.
Page_read(id, yaml, content) ==
    [id |-> id, yaml |-> yaml,
     value |-> Page_try_new(id, yaml).value,
     value_old |-> Page_try_new(id, yaml).value_old,
     file |-> yaml, written |-> FALSE, text |-> content]

\* Page::overwrite_frontmatter with the text it writes.
Page_overwrite_text(page) ==
    LET done == Page_overwrite_frontmatter(page, TRUE, FALSE).page
    IN  IF page.value # page.value_old
        THEN [done EXCEPT !.text = new_file_content(page.yaml, page.text)]
        ELSE done

\* The bodies: up to MaxBodyLines lines, each ended by "\n" or "\r\n", the
\* last one possibly by nothing.
Bodies ==
    LET ended(n) == [1..n -> [text : BodyTexts, end : {LF, CRLF}]]
        open(n) == {b \o <<Line(t, "")>> :
                       b \in ended(n - 1), t \in BodyTexts \ {""}}
    IN  UNION {ended(n) : n \in 0..MaxBodyLines}
            \cup UNION {open(n) : n \in 1..MaxBodyLines}

\* The files: a front matter with or without the ordering key, the same
\* terminator on its lines.
Files ==
    {[yaml |-> yaml,
      content |-> [i \in 1..Len(emitter_dump(yaml)) |->
                      Line(emitter_dump(yaml)[i], end)]
                  \o <<Line("---", IF body = <<>> THEN last ELSE end)>>
                  \o body] :
        yaml \in SessionYaml, end \in {LF, CRLF}, last \in {LF, CRLF, ""},
        body \in Bodies}

\* The body of a text: what follows the line that closes the front matter.
BodyOf(content) ==
    LET ends == {i \in 2..Len(content) : content[i].text = "---"}
    IN  SubSeq(content, (CHOOSE i \in ends : \A j \in ends : i <= j) + 1,
               Len(content))

InitRewrite ==
    /\ \E f \in Files : page_list = <<Page_read(1, f.yaml, f.content)>>
    /\ pc = "read"
    /\ AppIdle
    /\ calls = <<>>

\* The page is taken into the order or out of it.
RewriteToggle ==
    /\ pc = "read"
    /\ page_list' = toggle_value(page_list, 0).page_list
    /\ calls' = <<Call("toggle_value", 0, "-", "Ok", page_list)>>
    /\ pc' = "edited"
    /\ AppUnchanged

\* The save: substitute_value, then overwrite_frontmatter.
RewriteSave ==
    /\ pc \in {"read", "edited"}
    /\ page_list' = <<Page_overwrite_text(Page_substitute_value(page_list[1]))>>
    /\ calls' = <<Call("overwrite_frontmatter", 0, "-", "Ok", page_list)>>
    /\ pc' = "saved"
    /\ AppUnchanged

NextRewrite == RewriteToggle \/ RewriteSave

SpecRewrite == InitRewrite /\ [][NextRewrite]_vars

(***************************************************************************)
(* The controller: App and Tui::run.  pc is the place in Tui::run:         *)
(*   "draw"      before the first draw,                                    *)
(*   "keys"      waiting for a key,                                        *)
(*   "exit_ok"   run has returned Ok, "exit_err" it has returned an error, *)
(*   "panic"     the process has panicked.                                 *)
(* last_key is the key of the last step; opened_from is the status in which*)
(* the last prompt was opened.                                             *)
(***************************************************************************)
Keys == {"l", "j", "x", "q", "s", "Y", "Up", "Down", "n"}

Browsing == {"Unpicked", "Picked"}

Prompts == {"AskQuit", "AskSave"}

\* The front matters of a session of the controller: no key, and the key 1,
\* which the renumbering changes in the first Some page and keeps in the
\* second ...
AppYaml == {Absent, Integer(1)}

\* ... and, for the first file of the scan, a front matter that is no mapping.
AppInputs ==
    InputsOf(AppYaml, MaxAppDocs)
        \cup {<<NonHash>> \o yamls : yamls \in InputsOf(AppYaml, MaxAppDocs - 1)}

\* App::new after PageList::try_new.
Init ==
    /\ \E yamls \in AppInputs : page_list = PageList_try_new(yamls)
    /\ selected_idx = 0
    /\ current_status = "Unpicked"
    /\ previous_status = "Unpicked"
    /\ pc = "draw"
    /\ last_key = "none"
    /\ opened_from = "Unpicked"
    /\ calls = <<>>

\* ui_select unwraps the maximum of the file name lengths: no page, a panic.
ui_panics(pl, status) == status \in Browsing /\ pl = <<>>

\* The first draw of Tui::run.
FirstDraw ==
    /\ pc = "draw"
    /\ pc' = IF ui_panics(page_list, current_status) THEN "panic" ELSE "keys"
    /\ UNCHANGED <<page_list, selected_idx, current_status, previous_status,
                   last_key, opened_from, calls>>

\* update_status without the assignment to previous_status.
update_status_forgets(status) ==
    /\ previous_status' = previous_status
    /\ current_status' = status

\* App::update_status
update_status(status) ==
    /\ previous_status' = current_status
    /\ current_status' = status

\* Tui::run behind app.transition(key): an error leaves run, Quit breaks
\* the loop, any other status is drawn.
Returns(result) ==
    pc' = IF result # "Ok" THEN "exit_err"
          ELSE IF current_status' = "Quit" THEN "exit_ok"
          ELSE IF ui_panics(page_list', current_status') THEN "panic"
          ELSE "keys"

NoCall == calls' = <<>>

\* App::unpicked
unpicked(key) ==
    \/ /\ key = "q"
       /\ update_status("AskQuit")
       /\ UNCHANGED <<page_list, selected_idx>> /\ NoCall
       /\ Returns("Ok")
    \/ /\ key = "s"
       /\ update_status("AskSave")
       /\ UNCHANGED <<page_list, selected_idx>> /\ NoCall
       /\ Returns("Ok")
    \/ /\ key \in {"i", "Up"}
       /\ update_status("Unpicked")
       /\ selected_idx' = IF selected_idx # 0 THEN selected_idx - 1
                          ELSE selected_idx
       /\ UNCHANGED page_list /\ NoCall
       /\ Returns("Ok")
    \/ /\ key \in {"k", "Down"}
       /\ update_status("Unpicked")
       /\ UNCHANGED page_list /\ NoCall
       /\ \/ /\ Len(page_list) > 0
             /\ selected_idx' = IF selected_idx # Len(page_list) - 1
                                THEN selected_idx + 1 ELSE selected_idx
             /\ Returns("Ok")
          \* len() - 1 on the empty list: wrapped in a release build ...
          \/ /\ Len(page_list) = 0
             /\ selected_idx' = selected_idx + 1
             /\ Returns("Ok")
          \* ... and an overflow panic in a debug build.
          \/ /\ Len(page_list) = 0
             /\ UNCHANGED selected_idx
             /\ pc' = "panic"
    \/ /\ key = "x"
       /\ LET r == toggle_value(page_list, selected_idx)
          IN  /\ page_list' = r.page_list
              /\ calls' = <<Call("toggle_value", selected_idx, "-", r.result,
                                 page_list)>>
              /\ UNCHANGED <<selected_idx, current_status, previous_status>>
              /\ Returns(r.result)
    \/ /\ key = "l"
       /\ update_status("Picked")
       /\ UNCHANGED <<page_list, selected_idx>> /\ NoCall
       /\ Returns("Ok")
    \/ /\ key \notin {"q", "s", "i", "Up", "k", "Down", "x", "l"}
       /\ UNCHANGED <<page_list, selected_idx, current_status,
                      previous_status>>
       /\ NoCall
       /\ Returns("Ok")

\* The cursor moves two rows with the swap.
picked_swap_twice(dir, step) ==
    LET r == swap_with_value(page_list, selected_idx, dir)
    IN  /\ page_list' = r.page_list
        /\ calls' = <<Call("swap_with_value", selected_idx, dir, r.result,
                           page_list)>>
        /\ selected_idx' = IF r.result = "Ok" THEN selected_idx + step + step
                           ELSE selected_idx
        /\ Returns(r.result)

\* The cursor stays where it is when the page moves.
picked_swap_stays(dir, step) ==
    LET r == swap_with_value(page_list, selected_idx, dir)
    IN  /\ page_list' = r.page_list
        /\ calls' = <<Call("swap_with_value", selected_idx, dir, r.result,
                           page_list)>>
        /\ selected_idx' = selected_idx
        /\ Returns(r.result)

\* The swap of App::picked and the cursor that follows it.
picked_swap(dir, step) ==
    LET r == swap_with_value(page_list, selected_idx, dir)
    IN  /\ page_list' = r.page_list
        /\ calls' = <<Call("swap_with_value", selected_idx, dir, r.result,
                           page_list)>>
        /\ selected_idx' = IF r.result = "Ok" THEN selected_idx + step
                           ELSE selected_idx
        /\ Returns(r.result)

\* App::picked
picked(key) ==
    \/ /\ key = "q"
       /\ update_status("AskQuit")
       /\ UNCHANGED <<page_list, selected_idx>> /\ NoCall
       /\ Returns("Ok")
    \/ /\ key \in {"i", "Up"}
       /\ update_status("Picked")
       /\ IF selected_idx # 0
          THEN picked_swap("Prev", -1)
          ELSE UNCHANGED <<page_list, selected_idx>> /\ NoCall /\ Returns("Ok")
    \/ /\ key \in {"k", "Down"}
       /\ update_status("Picked")
       /\ \/ /\ Len(page_list) > 0
             /\ IF selected_idx # Len(page_list) - 1
                THEN picked_swap("Next", 1)
                ELSE /\ UNCHANGED <<page_list, selected_idx>> /\ NoCall
                     /\ Returns("Ok")
          \* len() - 1 on the empty list: wrapped in a release build ...
          \/ /\ Len(page_list) = 0
             /\ picked_swap("Next", 1)
          \* ... and an overflow panic in a debug build.
          \/ /\ Len(page_list) = 0
             /\ UNCHANGED <<page_list, selected_idx>> /\ NoCall
             /\ pc' = "panic"
    \/ /\ key = "j"
       /\ update_status("Unpicked")
       /\ UNCHANGED <<page_list, selected_idx>> /\ NoCall
       /\ Returns("Ok")
    \/ /\ key \notin {"q", "i", "Up", "k", "Down", "j"}
       /\ UNCHANGED <<page_list, selected_idx, current_status,
                      previous_status>>
       /\ NoCall
       /\ Returns("Ok")

\* The calls of a save, as calls remembers them.
SaveCalls(sub, ovw) ==
    IF sub.result = "Panic"
    THEN <<Call("substitute_value", 0, "-", sub.result, page_list)>>
    ELSE <<Call("substitute_value", 0, "-", sub.result, page_list),
           Call("overwrite_frontmatter", 0, "-", ovw.result, sub.page_list)>>

\* ask_quit saving like ask_save.
ask_quit_saves(key) ==
    /\ IF key = "Y"
       THEN LET sub == PageList_substitute_value(page_list)
                ovw == PageList_overwrite_frontmatter(
                           sub.page_list, [fail_at |-> 0, partial |-> FALSE])
            IN  /\ page_list' = ovw.page_list
                /\ calls' = SaveCalls(sub, ovw)
                /\ update_status("Quit")
       ELSE update_status(previous_status) /\ UNCHANGED page_list /\ NoCall
    /\ UNCHANGED selected_idx
    /\ Returns("Ok")

\* App::ask_quit
ask_quit(key) ==
    /\ IF key = "Y"
       THEN update_status("Quit")
       ELSE update_status(previous_status)
    /\ UNCHANGED <<page_list, selected_idx>> /\ NoCall
    /\ Returns("Ok")

\* App::ask_save
ask_save(key) ==
    /\ UNCHANGED selected_idx
    /\ IF key = "Y"
       THEN \E io \in IoOutcomes :
              LET sub == PageList_substitute_value(page_list)
                  ovw == PageList_overwrite_frontmatter(sub.page_list, io)
              IN  /\ calls' = SaveCalls(sub, ovw)
                  /\ IF sub.result = "Panic"
                     THEN /\ page_list' = sub.page_list
                          /\ UNCHANGED <<current_status, previous_status>>
                          /\ pc' = "panic"
                     ELSE IF ovw.result # "Ok"
                     THEN /\ page_list' = ovw.page_list
                          /\ UNCHANGED <<current_status, previous_status>>
                          /\ Returns(ovw.result)
                     ELSE /\ page_list' = ovw.page_list
                          /\ update_status("Quit")
                          /\ Returns("Ok")
       ELSE /\ update_status(previous_status)
            /\ UNCHANGED page_list /\ NoCall
            /\ Returns("Ok")

\* One key read by Tui::run and given to the handler of the status.
KeyRead(key) ==
    /\ pc = "keys"
    /\ last_key' = key
    /\ opened_from' = IF current_status \in Browsing
                         /\ current_status' \in Prompts
                      THEN current_status ELSE opened_from

Unpicked ==
    /\ current_status = "Unpicked"
    /\ \E key \in Keys : unpicked(key) /\ KeyRead(key)

\* The keys of the Picked status given to the handler of Unpicked.
Picked_as_unpicked ==
    /\ current_status = "Picked"
    /\ \E key \in Keys : unpicked(key) /\ KeyRead(key)

Picked ==
    /\ current_status = "Picked"
    /\ \E key \in Keys : picked(key) /\ KeyRead(key)

AskQuit ==
    /\ current_status = "AskQuit"
    /\ \E key \in Keys : ask_quit(key) /\ KeyRead(key)

AskSave ==
    /\ current_status = "AskSave"
    /\ \E key \in Keys : ask_save(key) /\ KeyRead(key)

\* The input has ended: the loop of Tui::run ends and run returns Ok.
InputEnds ==
    /\ pc = "keys"
    /\ pc' = "exit_ok"
    /\ last_key' = "eof"
    /\ NoCall
    /\ UNCHANGED <<page_list, selected_idx, current_status, previous_status,
                   opened_from>>

Next == FirstDraw \/ Unpicked \/ Picked \/ AskQuit \/ AskSave \/ InputEnds

Spec == Init /\ [][Next]_vars

(***************************************************************************)
(* Properties of the collection.                                           *)
(***************************************************************************)
SomePositions(pl) == {i \in 1..Len(pl) : is_some(pl[i].value)}

SomeValues(pl) == {unwrap(pl[i].value) : i \in SomePositions(pl)}

Ascending(pl) ==
    \A i, j \in SomePositions(pl) :
        i < j => unwrap(pl[i].value) < unwrap(pl[j].value)

\* C1: after any calls of toggle_value and swap_with_value the Some values
\* are exactly 0 .. k-1, k the number of Some pages, none held twice.
DensityInvariant ==
    LET k == Cardinality(SomePositions(page_list))
    IN  /\ SomeValues(page_list) = 0..(k - 1)
        /\ Cardinality(SomeValues(page_list)) = k

\* C2: after any calls, toggles included, the Some values read in position
\* order are strictly ascending: the rank of a Some page among the Some pages
\* is its value.
RankMatchesPosition ==
    /\ Ascending(page_list)
    /\ \A i \in SomePositions(page_list) :
          unwrap(page_list[i].value)
              = Cardinality({j \in SomePositions(page_list) : j < i})

\* C3: after swaps only, the Some pages stand in ascending order of their
\* values, also where None pages were swapped past them.
SwapsKeepAscending == Ascending(page_list)

\* A None page has just been swapped past a Some page and now stands before
\* two of them.
SwapsKeepAscendingWitness ==
    /\ calls # <<>>
    /\ calls[1].result = "Ok"
    /\ \E i \in 1..Len(page_list) :
          /\ ~is_some(page_list[i].value)
          /\ page_list[i].id # calls[1].before[i].id
          /\ Cardinality({j \in SomePositions(page_list) : j > i}) >= 2

IsPair(op) ==
    /\ pc = "second"
    /\ calls[1].op = op
    /\ calls[1].result = "Ok"

\* C4: toggle_value(i) twice in immediate succession gives back the list it
\* started from: every value and the order of the pages.
TogglePairing ==
    IsPair("toggle_value") =>
        /\ calls[2].result = "Ok"
        /\ page_list = calls[1].before

\* C5: swap_with_value(i, Next) and then swap_with_value(i + 1, Prev) give
\* back the order of the pages and every value.
SwapSymmetry ==
    IsPair("swap_with_value") =>
        /\ calls[2].result = "Ok"
        /\ page_list = calls[1].before

\* The pair was applied to a Some page followed by a None page, with another
\* Some page in the list.
SwapSymmetryWitness ==
    /\ IsPair("swap_with_value")
    /\ LET before == calls[1].before
           i == calls[1].idx
       IN  /\ is_some(At(before, i).value)
           /\ ~is_some(At(before, i + 1).value)
           /\ Cardinality(SomePositions(before)) >= 2
           /\ calls[2].before # before

\* C7: sort_and_fix puts the Some pages first, in the order of the values
\* read from the files and ties in scan order, leaves the None pages in scan
\* order, and numbers the Some pages 0, 1, .. from the left.
ConstructionResult ==
    pc = "constructed" =>
        LET input == calls[1].before
            n == Len(input)
            old(i) == input[page_list[i].id].value
        IN  /\ Len(page_list) = n
            /\ {page_list[i].id : i \in 1..n} = 1..n
            /\ \A i \in 1..n :
                  /\ is_some(page_list[i].value) = is_some(old(i))
                  /\ is_some(page_list[i].value) =>
                        page_list[i].value = Some(i - 1)
            /\ \A i, j \in 1..n :
                  i < j =>
                    /\ is_some(old(j)) => is_some(old(i))
                    /\ is_some(old(i)) /\ is_some(old(j)) =>
                          \/ unwrap(old(i)) < unwrap(old(j))
                          \/ /\ unwrap(old(i)) = unwrap(old(j))
                             /\ page_list[i].id < page_list[j].id
                    /\ ~is_some(old(i)) /\ ~is_some(old(j)) =>
                          page_list[i].id < page_list[j].id

\* The list has been built from files holding a None page before a Some
\* page and the same negative value twice.
ConstructionResultWitness ==
    /\ pc = "constructed"
    /\ LET input == calls[1].before
           n == Len(input)
       IN  /\ \E i, j \in 1..n :
                 i < j /\ ~is_some(input[i].value) /\ is_some(input[j].value)
           /\ \E i, j \in 1..n :
                 /\ i < j
                 /\ is_some(input[i].value)
                 /\ input[i].value = input[j].value
                 /\ unwrap(input[i].value) < 0
           /\ page_list # input

\* The files of the scenarios: doc_a, doc_b, doc_c in scan order with no key,
\* 1 and 0.
ScenarioFiles == <<Absent, Integer(1), Integer(0)>>

\* The ids and the values of the pages, in the order of the list.
IdsAndValues(pl) == [i \in 1..Len(pl) |-> <<pl[i].id, pl[i].value>>]

\* C12 as stated: built from doc_a, doc_b, doc_c with None, 1, 0 the list is
\* doc_b with 0, doc_c with 1, doc_a with None.
ScenarioA ==
    (pc = "constructed" /\ calls[1].before = append_page_list(ScenarioFiles))
        => IdsAndValues(page_list) = <<<<2, Some(0)>>, <<3, Some(1)>>, <<1, None>>>>

\* C12, amended: built from doc_a, doc_b, doc_c with None, 1, 0 the list is
\* doc_c (read with 0) with value 0, doc_b (read with 1) with value 1, doc_a
\* with None.
ScenarioAByValue ==
    (pc = "constructed" /\ calls[1].before = append_page_list(ScenarioFiles))
        => IdsAndValues(page_list) = <<<<3, Some(0)>>, <<2, Some(1)>>, <<1, None>>>>

\* The list has been built from the three files of the scenario.
ScenarioAWitness ==
    /\ pc = "constructed"
    /\ calls[1].before = append_page_list(ScenarioFiles)
    /\ Len(page_list) = 3

\* C8: a call with an index behind the end, a Prev at the first page and a
\* Next at the last page return an error, on the empty list too, and change
\* nothing; no call panics.
BoundsErrors ==
    calls # <<>> =>
        LET c == calls[1]
            len == Len(c.before)
        IN  /\ c.result # "Panic"
            /\ c.idx >= len =>
                  c.result = "IndexOutOfRange" /\ page_list = c.before
            /\ /\ c.op = "swap_with_value"
               /\ c.idx < len
               /\ \/ c.dir = "Prev" /\ c.idx = 0
                  \/ c.dir = "Next" /\ c.idx = len - 1
               => c.result = "NoSuchNeighbor" /\ page_list = c.before

\* swap_with_value(0, Next) on the empty list has returned its error.
BoundsErrorsWitness ==
    /\ calls # <<>>
    /\ calls[1] = Call("swap_with_value", 0, "Next", "IndexOutOfRange", <<>>)
    /\ page_list = <<>>

(***************************************************************************)
(* Properties of the controller.                                           *)
(***************************************************************************)
\* The integer the ordering key holds in a file.
FileValue(entry) == IF entry[1] = "int" THEN Some(entry[2]) ELSE None

Saved ==
    /\ pc = "exit_ok"
    /\ current_status = "Quit"
    /\ previous_status = "AskSave"

\* C6: a save writes the file of a page if and only if its value differs from
\* value_old, the value its file held when it was read, before the
\* renumbering; a page whose value equals value_old is never written.
WriteAvoidance ==
    /\ \A i \in 1..Len(page_list) :
          LET page == page_list[i]
          IN  /\ page.written => page.value # page.value_old
              /\ ~page.written => page.value_old = FileValue(page.file)
    /\ Saved =>
          \A i \in 1..Len(page_list) :
              page_list[i].written
                  <=> page_list[i].value # page_list[i].value_old

\* A save has written a page whose key the renumbering changed (1 in the
\* file) and has left alone a page whose value is the one in its file.
WriteAvoidanceWitness ==
    /\ Saved
    /\ \E i, j \in 1..Len(page_list) :
          /\ page_list[i].written
          /\ page_list[i].value_old = Some(1)
          /\ ~page_list[j].written
          /\ is_some(page_list[j].value)
          /\ page_list[j].value = page_list[j].value_old

\* C9: in a prompt any key but Y leads back to the browsing status the prompt
\* was opened from, never to a prompt or to Quit, and leaves the pages and
\* the cursor as they are.
CancelReturns ==
    [][(current_status \in Prompts /\ last_key' \in Keys \ {"Y"}) =>
          /\ current_status' = opened_from
          /\ current_status' \in Browsing
          /\ page_list' = page_list
          /\ selected_idx' = selected_idx]_vars

\* A prompt opened from Picked, after a toggle and a move of the cursor, has
\* just been cancelled.
CancelReturnsWitness ==
    /\ previous_status \in Prompts
    /\ current_status = "Picked"
    /\ last_key = "n"
    /\ selected_idx > 0
    /\ \E i \in 1..Len(page_list) :
          ~is_some(page_list[i].value_old) /\ is_some(page_list[i].value)

\* What a save can change of a page: the front matter and the file.
Stored(pl) ==
    {<<pl[i].id, pl[i].yaml, pl[i].file, pl[i].written>> : i \in 1..Len(pl)}

Untouched(pl) ==
    \A i \in 1..Len(pl) : ~pl[i].written /\ pl[i].file = pl[i].yaml

SaveCalled(cs) ==
    \E i \in 1..Len(cs) :
        cs[i].op \in {"substitute_value", "overwrite_frontmatter"}

\* C10: substitute_value and overwrite_frontmatter are called only by Y in
\* AskSave and Quit is entered only by Y in a prompt; until a save has been
\* confirmed, and after leaving through AskQuit, no file is written and no
\* front matter changed, whatever toggles and swaps were made.
SaveOnlyOnConfirm ==
    /\ [](\/ Untouched(page_list)
          \/ /\ last_key = "Y"
             /\ \/ current_status = "Quit" /\ previous_status = "AskSave"
                \/ current_status = "AskSave" /\ pc \in {"exit_err", "panic"})
    /\ [][/\ (\/ SaveCalled(calls') /\ calls' # calls
              \/ Stored(page_list') # Stored(page_list)) =>
                 (current_status = "AskSave" /\ last_key' = "Y")
          /\ (current_status' = "Quit" /\ current_status # "Quit") =>
                 (current_status \in Prompts /\ last_key' = "Y")]_vars

\* The session has ended through AskQuit after a toggle and a swap.
SaveOnlyOnConfirmWitness ==
    /\ pc = "exit_ok"
    /\ current_status = "Quit"
    /\ previous_status = "AskQuit"
    /\ Len(page_list) = 2
    /\ page_list[1].id = 2
    /\ \E i \in 1..Len(page_list) :
          page_list[i].value # page_list[i].value_old

(***************************************************************************)
(* Properties of single calls.                                             *)
(***************************************************************************)
\* The last call and the list it was made on.
LastCall == calls[Len(calls)]

\* The value of the last Some page strictly before position idx (from 0),
\* -1 without one.
LastSomeBefore(pl, idx) ==
    LET some == {i \in 1..idx : is_some(pl[i].value)}
    IN  IF some = {} THEN -1
        ELSE unwrap(pl[CHOOSE i \in some : \A j \in some : j <= i].value)

\* C13: toggle_value on a None page gives it the value of the last Some page
\* strictly before it plus 1, and 0 when there is no Some page before it;
\* every Some page behind it has its value raised by exactly 1.
InsertionValue ==
    (/\ calls # <<>>
     /\ LastCall.op = "toggle_value"
     /\ LastCall.result = "Ok"
     /\ ~is_some(At(LastCall.before, LastCall.idx).value)) =>
        LET before == LastCall.before
            idx == LastCall.idx
        IN  /\ At(page_list, idx).value = Some(LastSomeBefore(before, idx) + 1)
            /\ \A i \in (idx + 2)..Len(before) :
                  is_some(before[i].value) =>
                      page_list[i].value = Some(unwrap(before[i].value) + 1)

\* C14: toggle_value moves no page and changes no value before idx; on a
\* Some page it sets the value to None and lowers every Some value behind it
\* by exactly 1, so that taking out the last page of the order changes no
\* other value.
ToggleFrame ==
    (/\ calls # <<>>
     /\ LastCall.op = "toggle_value"
     /\ LastCall.result = "Ok") =>
        LET before == LastCall.before
            idx == LastCall.idx
            later == {i \in (idx + 2)..Len(before) : is_some(before[i].value)}
        IN  /\ Len(page_list) = Len(before)
            /\ \A i \in 1..Len(before) : page_list[i].id = before[i].id
            /\ \A i \in 1..idx : page_list[i].value = before[i].value
            /\ \A i \in (idx + 2)..Len(before) :
                  is_some(page_list[i].value) = is_some(before[i].value)
            /\ is_some(At(before, idx).value) =>
                  /\ At(page_list, idx).value = None
                  /\ \A i \in later :
                        page_list[i].value = Some(unwrap(before[i].value) - 1)
                  /\ later = {} =>
                        \A i \in 1..Len(before) :
                            i # idx + 1 => page_list[i].value = before[i].value

\* A Some page with a Some page before it and one behind it has been taken
\* out of the order.
ToggleFrameWitness ==
    /\ calls # <<>>
    /\ LastCall.op = "toggle_value"
    /\ LastCall.result = "Ok"
    /\ LastCall.idx = 1
    /\ Len(LastCall.before) = 3
    /\ \A i \in 1..3 : is_some(LastCall.before[i].value)
    /\ page_list[3].value = Some(1)

\* The position (from 0) of the neighbour that the last call names.
Neighbor == IF LastCall.dir = "Prev" THEN LastCall.idx - 1 ELSE LastCall.idx + 1

LastSwapOk ==
    /\ calls # <<>>
    /\ LastCall.op = "swap_with_value"
    /\ LastCall.result = "Ok"

\* C15: a successful swap_with_value exchanges the places of the page at idx
\* and its neighbour and touches no other page; when both are Some each of
\* the two places keeps the value it had, and when either is None each page
\* keeps its own value.
SwapSemantics ==
    LastSwapOk =>
        LET before == LastCall.before
            a == LastCall.idx + 1
            b == Neighbor + 1
        IN  /\ Len(page_list) = Len(before)
            /\ \A i \in 1..Len(before) :
                  i \notin {a, b} => page_list[i] = before[i]
            /\ IF is_some(before[a].value) /\ is_some(before[b].value)
               THEN /\ page_list[a] = [before[b] EXCEPT !.value = before[a].value]
                    /\ page_list[b] = [before[a] EXCEPT !.value = before[b].value]
               ELSE /\ page_list[a] = before[b]
                    /\ page_list[b] = before[a]

\* Two Some pages have been swapped next to a None page.
SwapSemanticsWitness ==
    /\ LastSwapOk
    /\ Len(page_list) = 3
    /\ is_some(At(LastCall.before, LastCall.idx).value)
    /\ is_some(At(LastCall.before, Neighbor).value)
    /\ \E i \in 1..3 : ~is_some(page_list[i].value)
    /\ page_list # LastCall.before

(***************************************************************************)
(* Properties of the rewritten text.                                       *)
(***************************************************************************)
\* C11: in every file that the save has rewritten, the text behind the line
\* that closes the front matter is the original one, character for character:
\* the same lines, in the same order, with the same terminators and the same
\* presence or absence of a final newline; before it stand the serialized
\* front matter and a line holding only the closing delimiter.
BodyVerbatim ==
    (pc = "saved" /\ page_list[1].written) =>
        LET old == calls[1].before[1].text
            new == page_list[1].text
            head == emitter_dump(page_list[1].yaml) \o <<"---">>
        IN  /\ Len(new) >= Len(head)
            /\ SubSeq(lines(new), 1, Len(head)) = head
            /\ BodyOf(new) = BodyOf(old)

(***************************************************************************)
(* Properties of the keys of the two browsing statuses.                    *)
(***************************************************************************)
\* C16: every swap_with_value that Up or Down makes in the Picked status
\* exchanges two neighbouring pages that both carry Some; a None page is
\* never moved.
ReorderOnlyOrdered ==
    (LastSwapOk /\ current_status = "Picked") =>
        /\ is_some(At(LastCall.before, LastCall.idx).value)
        /\ is_some(At(LastCall.before, Neighbor).value)


BoundsResults == {"IndexOutOfRange", "NoSuchNeighbor"}

\* C17: on a list that is not empty the cursor is a position of the list,
\* and no key in any reachable state makes toggle_value or swap_with_value
\* return IndexOutOfRange or NoSuchNeighbor.
CursorInRange ==
    /\ Len(page_list) > 0 =>
          (0 <= selected_idx /\ selected_idx <= Len(page_list) - 1)
    /\ \A i \in 1..Len(calls) : calls[i].result \notin BoundsResults

\* Down has been pressed in the Picked status with the cursor on the last of
\* two pages: no call is made and the cursor stays.
CursorInRangeWitness ==
    /\ Len(page_list) = 2
    /\ current_status = "Picked"
    /\ last_key = "Down"
    /\ selected_idx = Len(page_list) - 1
    /\ calls = <<>>


\* C18: in the Picked status Up (Down) with the cursor not on the first
\* (last) page swaps the selected page with the page before (behind) it and
\* moves the cursor by one the same way, so that the page under the cursor
\* is the same before and after the key; the status stays Picked.
CursorFollows ==
    [][(/\ pc = "keys"
        /\ current_status = "Picked"
        /\ \/ last_key' = "Up" /\ selected_idx # 0
           \/ last_key' = "Down" /\ selected_idx # Len(page_list) - 1) =>
           LET step == IF last_key' = "Up" THEN -1 ELSE 1
           IN  /\ selected_idx' = selected_idx + step
               /\ At(page_list', selected_idx').id = At(page_list, selected_idx).id
               /\ At(page_list', selected_idx).id = At(page_list, selected_idx').id
               /\ current_status' = "Picked"
               /\ pc' = "keys"]_vars

\* Up has carried the second page, a Some page, to the first place.
CursorFollowsWitness ==
    /\ current_status = "Picked"
    /\ last_key = "Up"
    /\ LastSwapOk
    /\ LastCall.idx = 1
    /\ selected_idx = 0
    /\ At(page_list, 0).id = At(LastCall.before, 1).id
    /\ is_some(At(page_list, 0).value)


\* The keys without an arm in the handler of a browsing status: in Picked
\* the keys of save, toggle and pick, in Unpicked the key of unpick, in both
\* the keys bound to nothing there.
Unlisted(status) ==
    IF status = "Picked" THEN {"s", "x", "l", "Y", "n"}
    ELSE IF status = "Unpicked" THEN {"j", "Y", "n"}
    ELSE {}

\* C19: a key without an arm in the handler of the browsing status leaves
\* the status, the cursor, the order of the pages and every value as they
\* are: no prompt opens from it and no call is made on the list.
UnlistedKeys ==
    [][(pc = "keys" /\ last_key' \in Unlisted(current_status)) =>
           /\ UNCHANGED <<current_status, previous_status, selected_idx,
                          page_list>>
           /\ calls' = <<>>
           /\ pc' = "keys"]_vars

\* The key of save has been pressed in the Picked status on a list with a
\* Some page and a None page.
UnlistedKeysWitness ==
    /\ current_status = "Picked"
    /\ last_key = "s"
    /\ pc = "keys"
    /\ \E i, j \in 1..Len(page_list) :
          is_some(page_list[i].value) /\ ~is_some(page_list[j].value)


(***************************************************************************)
(* Properties of a save that fails.                                        *)
(***************************************************************************)
\* C20: overwrite_frontmatter writes the changed pages one at a time in the
\* order of the list; when the write of the page at place i fails, the
\* changed pages before i have been written, no page behind i has been
\* touched, the error leaves ask_save and run, and the status does not
\* become Quit.
PersistFailure ==
    (/\ calls # <<>>
     /\ LastCall.op = "overwrite_frontmatter"
     /\ LastCall.result = "WriteFailure") =>
        LET before == LastCall.before
            n == Len(before)
            changed(j) == before[j].value # before[j].value_old
        IN  /\ pc = "exit_err"
            /\ current_status = "AskSave"
            /\ Len(page_list) = n
            /\ \E i \in 1..n :
                  /\ changed(i)
                  /\ page_list[i].file \in {before[i].file, Partial}
                  /\ \A j \in 1..(i - 1) :
                        IF changed(j)
                        THEN /\ page_list[j].written
                             /\ page_list[j].file = before[j].yaml
                        ELSE page_list[j] = before[j]
                  /\ \A j \in (i + 1)..n : page_list[j] = before[j]

\* The write of the second page has failed behind the write of the first.
PersistFailureWitness ==
    /\ calls # <<>>
    /\ LastCall.op = "overwrite_frontmatter"
    /\ LastCall.result = "WriteFailure"
    /\ Len(page_list) = 2
    /\ page_list[1].written
    /\ page_list[2].file # page_list[2].yaml


(***************************************************************************)
(* Properties of value_old and of the files behind a save.                 *)
(***************************************************************************)
\* The page of the list with the given id.
PageOf(pl, id) == pl[CHOOSE i \in 1..Len(pl) : pl[i].id = id]

\* The entry that Page::try_new found in the file of a page: the entry the
\* file holds as long as it has not been written, and behind a save the one
\* it held in the list that the save began with.
FileRead(page) ==
    IF page.written THEN PageOf(calls[1].before, page.id).file ELSE page.file

\* C21: value_old is the value that Page::try_new read from the file of the
\* page, in every state: the renumbering of sort_and_fix, toggle_value,
\* swap_with_value, substitute_value and overwrite_frontmatter have not
\* changed it, and it has stayed with its page when pages changed places.
ValueOldFrozen ==
    \A i \in 1..Len(page_list) :
        page_list[i].value_old = FileValue(FileRead(page_list[i]))

\* A page that the renumbering and a swap have changed has been written, and
\* value_old still differs from its value.
ValueOldFrozenWitness ==
    /\ current_status = "Quit"
    /\ \E i \in 1..Len(page_list) :
          /\ page_list[i].written
          /\ page_list[i].id # i
          /\ page_list[i].value_old = Some(1)
          /\ page_list[i].value # page_list[i].value_old


\* C22: behind a confirmed save whose writes have all succeeded, the file of
\* every page, written or skipped, holds under the ordering key the value of
\* the page: the integer v for Some(v), no integer for None.
SaveResult ==
    Saved =>
        \A i \in 1..Len(page_list) :
            FileValue(page_list[i].file) = page_list[i].value

\* A save has taken the key out of the file of a page that was read with 1
\* and has written an integer into the file of another page.
SaveResultWitness ==
    /\ Saved
    /\ \E i, j \in 1..Len(page_list) :
          /\ page_list[i].written
          /\ page_list[i].value_old = Some(1)
          /\ page_list[i].value = None
          /\ page_list[i].file = Absent
          /\ page_list[j].written
          /\ is_some(page_list[j].value)
          /\ page_list[j].file = Integer(unwrap(page_list[j].value))


(***************************************************************************)
(* The empty list.                                                         *)
(***************************************************************************)
\* C23: with a list of no pages the program takes Down in the Unpicked and
\* the Picked status without a trap or an error: it stays in its key loop or
\* ends it in order, the cursor stays 0 and no call is made on the list.
EmptyListDown ==
    Len(page_list) = 0 =>
        /\ pc \notin {"panic", "exit_err"}
        /\ selected_idx = 0
        /\ calls = <<>>


====
